---- MODULE Spec2Model ----
(***************************************************************************)
(* BloomFund: the MicroInsurance contract (contracts/MicroInsurance.sol)   *)
(* and the relayer scripts that validate stored EIP-712 premium            *)
(* authorizations, assemble a batch and submit it with payBatch.           *)
(*                                                                         *)
(* Units.  Amounts are counted in units of 0.05 BDG (5 * 10^16 wei), so    *)
(* the three constructor tiers cost 1, 2 and 3.  Time is counted in units  *)
(* of 15 days, so the scripts' 30-day constant is 2.  block.timestamp and  *)
(* the scripts' Date.now() are the same clock, `now`; like Unix time it is *)
(* larger than any period an authorization carries.                        *)
(***************************************************************************)
EXTENDS Integers, Sequences, FiniteSets, TLC

\* ------------------------------------------------------------------ bounds
MaxTime == 5          \* the clock stops advancing here
MaxNonce == 2         \* no payment is applied to a user whose nonce reached it
MaxTierUpdates == 1   \* number of updateTier calls in a behaviour
MaxTotalPaid == 13    \* largest policy.totalPaid the eligibility check is given

\* -------------------------------------------------------------- addresses
Users == {"u1", "u2"}          \* wallets of the policy holders
Owner == "owner"               \* deployer of the contract; the scripts' PRIVATE_KEY
Mallory == "mallory"           \* a key that is nobody's wallet
Garbage == "0xgarbage"         \* what ecrecover yields for a digest that was not signed
Addresses == Users \cup {Owner, Mallory, Garbage}

TierIds == {1, 2, 3}

\* A JavaScript address string: the 20 bytes and whether the hex digits are
\* lower-cased (register-tier stores lower case, ethers returns checksum case).
JsAddr(a, lc) == [addr |-> a, lower |-> lc]
toLowerCase(s) == [s EXCEPT !.lower = TRUE]

\* ----------------------------------------------------- EIP-712 signatures
RuntimeChainId == "bdag-chain"
ContractAddress == "0xMicroInsurance"
ContractDomain ==
    [name |-> "MicroInsurance", version |-> "1",
     chainId |-> RuntimeChainId, verifyingContract |-> ContractAddress]

\* A signature is what was signed and by whom; recovering it against another
\* digest yields an unrelated address.
Sign(signer, domain, value) ==
    [signer |-> signer, domain |-> domain, value |-> value, len |-> 65]

\* ethers.verifyTypedData(domain, types, value, signature): checksum-cased
verifyTypedData(domain, value, sig) ==
    IF sig.domain = domain /\ sig.value = value
    THEN JsAddr(sig.signer, FALSE)
    ELSE JsAddr(Garbage, FALSE)

\* The tuple the ABI encoder sends for a typed-data value object.
AbiAuth(value) == [value EXCEPT !.user = value.user.addr]

\* MicroInsurance.verifySignature: the digest is built from the contract's own
\* DOMAIN_SEPARATOR and the six fields of the struct.
verifySignature(auth, sig) ==
    IF sig.domain = ContractDomain /\ AbiAuth(sig.value) = auth
    THEN sig.signer
    ELSE Garbage

\* ------------------------------------------------------------------ state
VARIABLES
    \* contract storage
    owner, relayers, tiers, policies, nonces, lastPaidAt, totalPremiumsCollected,
    premiumPaid,      \* the PremiumPaid events emitted so far (with nonce and period)
    now,              \* the clock
    tierUpdates,      \* number of updateTier calls so far
    walletBalance,    \* balance of the wallet the scripts' PRIVATE_KEY controls
    lastOutcome,      \* outcome of the most recent payBatch transaction of any caller
    lastCall,         \* the most recent payBatch call of the script
    \* database
    usersTable,       \* users rows, by wallet
    authorizations,   \* authorizations rows of each user, as the query returns them
    \* one run of a relayer script
    script, pc, balance, runUsers, idx, readyUsers, validUsers,
    batchAuths, batchSignatures, totalAmount, nowRead, timestamp,
    nonceRead,        \* nonces(wallet) as the run read it; -1 while not read
    usersAtStart,     \* the users rows as they were when the run started
    written,          \* users whose row the run has written
    confirmedUsers,   \* users with an authorization in a confirmed transaction of the run
    sent,             \* the payBatch transactions the run has sent, in order
    otherRun,         \* a second relayer process running simple-batch-test.js
    \* claims
    claims,           \* contract storage: the claims, by claim id
    nextClaimId,      \* contract storage
    claimsTable,      \* database: the claims rows, by id
    requests,         \* the admin requests being handled
    \* environment
    rpcFails,         \* wallets for which the node fails a read of the chain state
    evaluated         \* the most recent evaluation of a function on its own

chainVars == <<owner, relayers, tiers, policies, nonces, lastPaidAt,
               totalPremiumsCollected, premiumPaid>>
dbVars == <<usersTable, authorizations>>
runVars == <<script, pc, balance, runUsers, idx, readyUsers, validUsers,
             batchAuths, batchSignatures, totalAmount, nowRead, timestamp,
             nonceRead, usersAtStart, written, confirmedUsers, sent, otherRun>>
claimVars == <<claims, nextClaimId, claimsTable, requests>>
envVars == <<rpcFails, evaluated>>
vars == <<chainVars, now, tierUpdates, walletBalance, lastOutcome, lastCall,
          dbVars, runVars, claimVars, envVars>>

\* The storage as one value, for the operators below.
Storage ==
    [owner |-> owner, relayers |-> relayers, tiers |-> tiers,
     policies |-> policies, nonces |-> nonces, lastPaidAt |-> lastPaidAt,
     totalPremiumsCollected |-> totalPremiumsCollected,
     premiumPaid |-> premiumPaid]

NoPolicy == [tier |-> 0, lastPaidAt |-> 0, totalPaid |-> 0, active |-> FALSE]

\* constructor
Constructor ==
    [owner |-> Owner,
     relayers |-> {Owner},
     tiers |-> [t \in TierIds |->
                  [monthlyFee |-> t, payoutAmount |-> 800 * t, active |-> TRUE]],
     policies |-> [u \in Users |-> NoPolicy],
     nonces |-> [u \in Users |-> 0],
     lastPaidAt |-> [u \in Users |-> 0],
     totalPremiumsCollected |-> 0,
     premiumPaid |-> <<>>]

\* modifier onlyRelayer
onlyRelayer(st, sender) == sender \in st.relayers \/ sender = st.owner

\* The require statements of the first pass for one entry, in source order.
\* "ok" when all of them pass.
FirstPassEntry(st, auth, sig, ts) ==
    IF ~st.tiers[auth.tier].active THEN "Invalid tier"
    ELSE IF auth.amount # st.tiers[auth.tier].monthlyFee THEN "Invalid amount"
    ELSE IF ~(ts <= auth.validUntil) THEN "Authorization expired"
    ELSE IF st.nonces[auth.user] # auth.nonce THEN "Invalid nonce"
    ELSE IF st.lastPaidAt[auth.user] > 0
            /\ ~(ts >= st.lastPaidAt[auth.user] + auth.period)
         THEN "Payment too early"
    ELSE IF sig.len # 65 THEN "Invalid signature length"
    ELSE IF verifySignature(auth, sig) # auth.user THEN "Invalid signature"
    ELSE "ok"

RECURSIVE SumAmounts(_)
SumAmounts(auths) ==
    IF auths = <<>> THEN 0 ELSE Head(auths).amount + SumAmounts(Tail(auths))

\* The revert reason of payBatch, "ok" when the call does not revert.
RevertReason(st, sender, auths, signatures, value, ts) ==
    IF ~onlyRelayer(st, sender) THEN "Not relayer"
    ELSE IF Len(auths) # Len(signatures) THEN "Array length mismatch"
    ELSE IF Len(auths) = 0 THEN "Empty batch"
    ELSE LET bad == {i \in 1..Len(auths) :
                        FirstPassEntry(st, auths[i], signatures[i], ts) # "ok"}
         IN IF bad # {}
            THEN LET i == CHOOSE j \in bad : \A k \in bad : j <= k
                 IN FirstPassEntry(st, auths[i], signatures[i], ts)
            ELSE IF value # SumAmounts(auths) THEN "Incorrect payment amount"
            ELSE "ok"

\* A variant of the loop body that records the payment time in the
\* lastPaidAt mapping only.
ProcessPayment_mappingOnly(st, auth, ts) ==
    LET policy == st.policies[auth.user]
        retier == IF policy.tier # auth.tier \/ ~policy.active
                  THEN [policy EXCEPT !.tier = auth.tier, !.active = TRUE]
                  ELSE policy
    IN [st EXCEPT
          !.nonces[auth.user] = @ + 1,
          !.lastPaidAt[auth.user] = ts,
          !.policies[auth.user] = [retier EXCEPT !.totalPaid = @ + auth.amount],
          !.totalPremiumsCollected = @ + auth.amount,
          !.premiumPaid = Append(@,
              [user |-> auth.user, tier |-> auth.tier, amount |-> auth.amount,
               timestamp |-> ts, nonce |-> auth.nonce, period |-> auth.period,
               prevPaidAt |-> st.lastPaidAt[auth.user]])]

\* The body of the second-pass loop for one entry.
ProcessPayment(st, auth, ts) ==
    LET policy == st.policies[auth.user]
        retier == IF policy.tier # auth.tier \/ ~policy.active
                  THEN [policy EXCEPT !.tier = auth.tier, !.active = TRUE]
                  ELSE policy
    IN [st EXCEPT
          !.nonces[auth.user] = @ + 1,
          !.lastPaidAt[auth.user] = ts,
          !.policies[auth.user] =
              [retier EXCEPT !.lastPaidAt = ts, !.totalPaid = @ + auth.amount],
          !.totalPremiumsCollected = @ + auth.amount,
          !.premiumPaid = Append(@,
              [user |-> auth.user, tier |-> auth.tier, amount |-> auth.amount,
               timestamp |-> ts, nonce |-> auth.nonce, period |-> auth.period,
               prevPaidAt |-> st.lastPaidAt[auth.user]])]

RECURSIVE SecondPass(_, _, _)
SecondPass(st, auths, ts) ==
    IF auths = <<>> THEN st
    ELSE SecondPass(ProcessPayment(st, Head(auths), ts), Tail(auths), ts)

\* A single-pass variant that keeps what it applied before the failing entry.
RECURSIVE SinglePass(_, _, _, _)
SinglePass(st, auths, signatures, ts) ==
    IF auths = <<>> THEN st
    ELSE IF FirstPassEntry(st, Head(auths), Head(signatures), ts) # "ok" THEN st
    ELSE SinglePass(ProcessPayment(st, Head(auths), ts),
                    Tail(auths), Tail(signatures), ts)

payBatch_singlePass(st, sender, auths, signatures, value, ts) ==
    IF onlyRelayer(st, sender) /\ Len(auths) = Len(signatures)
    THEN SinglePass(st, auths, signatures, ts)
    ELSE st

\* payBatch: the storage after the call.  A revert leaves the storage as it was.
payBatch(st, sender, auths, signatures, value, ts) ==
    IF RevertReason(st, sender, auths, signatures, value, ts) = "ok"
    THEN SecondPass(st, auths, ts)
    ELSE st

\* ------------------------------------------------------- contract actions
SetStorage(st) ==
    /\ owner' = st.owner
    /\ relayers' = st.relayers
    /\ tiers' = st.tiers
    /\ policies' = st.policies
    /\ nonces' = st.nonces
    /\ lastPaidAt' = st.lastPaidAt
    /\ totalPremiumsCollected' = st.totalPremiumsCollected
    /\ premiumPaid' = st.premiumPaid

NoCall ==
    [by |-> "none", kind |-> "none", auths |-> <<>>, signatures |-> <<>>,
     value |-> 0, reason |-> "none",
     nonces |-> [u \in Users |-> 0], lastPaidAt |-> [u \in Users |-> 0],
     fees |-> [t \in TierIds |-> 0], funds |-> 0, at |-> 0]

\* The record of one payBatch call a script makes in the current state: the
\* arguments as the script passes them, the outcome, and what the contract
\* held at that moment.
Call(by, kind, as, sigs, value, reason) ==
    [by |-> by, kind |-> kind, auths |-> as, signatures |-> sigs,
     value |-> value, reason |-> reason,
     nonces |-> nonces, lastPaidAt |-> lastPaidAt,
     fees |-> [t \in TierIds |-> tiers[t].monthlyFee],
     funds |-> walletBalance, at |-> now]

\* What a payBatch transaction did: the revert reason, the number of entries,
\* how many of them pass the first-pass checks on their own, and whether
\* msg.value is the sum of the amounts.
Outcome(st, sender, as, sigs, value, ts) ==
    [reason |-> RevertReason(st, sender, as, sigs, value, ts),
     n |-> Len(as),
     nValid |-> Cardinality({i \in 1..Len(as) :
                    FirstPassEntry(st, as[i], sigs[i], ts) = "ok"}),
     valueOk |-> (value = SumAmounts(as))]

NoOutcome == [reason |-> "none", n |-> 0, nValid |-> 0, valueOk |-> TRUE]

\* Number of entries of a batch that name user u.
RECURSIVE CountUser(_, _)
CountUser(as, u) ==
    IF as = <<>> THEN 0
    ELSE (IF Head(as).user = u THEN 1 ELSE 0) + CountUser(Tail(as), u)

\* No entry of the batch would push a nonce past the model's bound.
WithinNonceBound(as) ==
    \A u \in Users : nonces[u] + CountUser(as, u) <= MaxNonce

\* The clock advances.
Tick ==
    /\ pc = "idle"
    /\ now < MaxTime
    /\ now' = now + 1
    /\ UNCHANGED <<claimVars, envVars, chainVars, tierUpdates, walletBalance, lastOutcome, lastCall,
                   dbVars, runVars>>

\* updateTier(tierId, monthlyFee, payoutAmount, active), called by the owner
updateTier(tierId, monthlyFee, payoutAmount, active) ==
    /\ pc = "idle"
    /\ tierUpdates < MaxTierUpdates
    /\ tiers[tierId].monthlyFee > 0
    /\ tiers' = [tiers EXCEPT ![tierId] =
                    [monthlyFee |-> monthlyFee, payoutAmount |-> payoutAmount,
                     active |-> active]]
    /\ tierUpdates' = tierUpdates + 1
    /\ UNCHANGED <<owner, relayers, policies, nonces, lastPaidAt,
                   totalPremiumsCollected, premiumPaid, now, walletBalance,
                   lastOutcome, lastCall, dbVars, runVars, claimVars, envVars>>

UpdateTier ==
    \E monthlyFee \in {0, 2}, active \in BOOLEAN :
        updateTier(1, monthlyFee, tiers[1].payoutAmount, active)

\* ------------------------------------------- the contract under any caller
\* The typed-data value object a wallet signs.
Value(u, tier, amount, period, validUntil, nonce) ==
    [user |-> JsAddr(u, FALSE), tier |-> tier, amount |-> amount,
     period |-> period, validUntil |-> validUntil, nonce |-> nonce]

PAYMENT_PERIOD == 2

\* The clock value at deployment.
StartTime == PAYMENT_PERIOD + 1

\* Entries a relayer can put in a batch: the authorization of a user for
\* tier 1 at fee 1 with a period of 15 days, for nonce 0 or the current nonce
\* of some user, valid until the last clock value but one, signed by the user
\* or by another one.
Entries ==
    { [value |-> v, signature |-> Sign(signer, ContractDomain, v)] :
        v \in { Value(u, 1, 1, 1, validUntil, nonce) :
                  u \in Users, validUntil \in {MaxTime - 1},
                  nonce \in {0} \cup {nonces[w] : w \in Users} },
        signer \in Users }

Batches == { <<e>> : e \in Entries } \cup { <<e, f>> : e, f \in Entries }

BatchAuths(b) == [i \in 1..Len(b) |-> AbiAuth(b[i].value)]
BatchSignatures(b) == [i \in 1..Len(b) |-> b[i].signature]

\* Some relayer calls payBatch with any batch and any msg.value.
PayBatchCall ==
    \E b \in Batches, extra \in {0, 1} :
        LET as == BatchAuths(b)
            sigs == BatchSignatures(b)
            value == SumAmounts(as) + extra
        IN /\ WithinNonceBound(as)
           /\ lastOutcome' = Outcome(Storage, Owner, as, sigs, value, now)
           /\ SetStorage(payBatch(Storage, Owner, as, sigs, value, now))
           /\ UNCHANGED <<claimVars, envVars, now, tierUpdates, walletBalance, lastCall, dbVars, runVars>>

NoRow ==
    [wallet_address |-> JsAddr(Garbage, TRUE), tier |-> 0, monthly_fee |-> 0,
     last_paid_at |-> 0, total_paid |-> 0, nonce |-> 0, is_active |-> FALSE]

\* ------------------------------------------------------------- claims
ClaimIds == {1}
Requests == {1, 2}       \* the admin requests that can be in flight together

\* The zero value of mapping(uint256 => Claim).
NoClaim ==
    [user |-> "0x0", policyTier |-> 0, payoutAmount |-> 0, installmentsPaid |-> 0,
     totalInstallments |-> 0, approvedAt |-> 0, active |-> FALSE]

\* No claims row with this id.
NoClaimRow == [status |-> "none", payout_amount |-> 0, claim_start_date |-> 0,
               installments_paid |-> 0]

NoRequest == [pc |-> "idle", id |-> 0, claim |-> NoClaimRow]

\* No claim submitted and no admin request under way.
InitClaims ==
    /\ claims = [c \in ClaimIds |-> NoClaim]
    /\ nextClaimId = 1
    /\ claimsTable = [c \in ClaimIds |-> NoClaimRow]
    /\ requests = [r \in Requests |-> NoRequest]

\* Nothing evaluated yet.
NoEval == [fn |-> "none"]

\* The second process before it starts.
NoOtherRun == [pc |-> "idle", validUsers |-> <<>>, confirmed |-> FALSE, written |-> {}]

InitRun ==
    /\ script = "none"
    /\ pc = "idle"
    /\ balance = 0
    /\ runUsers = <<>>
    /\ idx = 0
    /\ readyUsers = <<>>
    /\ validUsers = <<>>
    /\ batchAuths = <<>>
    /\ batchSignatures = <<>>
    /\ totalAmount = 0
    /\ nowRead = 0
    /\ timestamp = 0
    /\ nonceRead = [u \in Users |-> -1]
    /\ usersAtStart = <<>>
    /\ written = {}
    /\ confirmedUsers = {}
    /\ sent = <<>>
    /\ otherRun = NoOtherRun

InitContract ==
    /\ owner = Constructor.owner
    /\ relayers = Constructor.relayers
    /\ tiers = Constructor.tiers
    /\ policies = Constructor.policies
    /\ nonces = Constructor.nonces
    /\ lastPaidAt = Constructor.lastPaidAt
    /\ totalPremiumsCollected = Constructor.totalPremiumsCollected
    /\ premiumPaid = Constructor.premiumPaid
    /\ now = StartTime
    /\ tierUpdates = 0
    /\ lastOutcome = NoOutcome
    /\ lastCall = NoCall

\* The deployed contract, nobody registered yet.
InitChain ==
    /\ InitContract
    /\ walletBalance = 0
    /\ usersTable = [u \in Users |-> NoRow]
    /\ authorizations = [u \in Users |-> <<>>]
    /\ InitRun
    /\ InitClaims
    /\ rpcFails = {}
    /\ evaluated = NoEval

NextChain == PayBatchCall \/ Tick \/ UpdateTier

SpecChain == InitChain /\ [][NextChain]_vars

\* ------------------------------------------------------------ the database
UserOrder == <<"u1", "u2">>     \* the order in which the users query returns rows

Periods == {PAYMENT_PERIOD, PAYMENT_PERIOD + 1}

\* An authorizations row as POST /api/register-tier stores it: the typed data
\* the client sent and the signature that came with it.
AuthRow(v, signer) ==
    [typed_data_json |-> [domain |-> ContractDomain, value |-> v],
     signature |-> Sign(signer, ContractDomain, v),
     is_active |-> TRUE]

StoredRows(u) ==
    { AuthRow(Value(u, 1, amount, period, validUntil, nonce), signer) :
        amount \in {0, 1}, period \in Periods,
        validUntil \in {StartTime + 1, MaxTime}, nonce \in {0, 1},
        signer \in {u, Mallory} }

UserRow(u, fee) ==
    [wallet_address |-> JsAddr(u, TRUE), tier |-> 1, monthly_fee |-> fee,
     last_paid_at |-> 0, total_paid |-> 0, nonce |-> 0, is_active |-> TRUE]

\* The row of a user who signed in the client for tier 1 at its fee.
PlainRow(u) == AuthRow(Value(u, 1, 1, PAYMENT_PERIOD, MaxTime, 0), u)

\* The row of a user who signed for tier 1 at no charge.
FreeRow(u) == AuthRow(Value(u, 1, 0, PAYMENT_PERIOD, MaxTime, 0), u)

\* Domains of another chain and of another deployment.
ForeignDomains ==
    { [ContractDomain EXCEPT !.chainId = "other-chain"],
      [ContractDomain EXCEPT !.verifyingContract = "0xOtherContract"] }

\* The row of a user who signed the plain value under a foreign domain.
ForeignRows(u) ==
    { [typed_data_json |-> [domain |-> d, value |-> PlainRow(u).typed_data_json.value],
       signature |-> Sign(u, d, PlainRow(u).typed_data_json.value),
       is_active |-> TRUE] : d \in ForeignDomains }

\* The domain TierSelection.tsx signs under.
TierSelectionDomain == [ContractDomain EXCEPT !.name = "MicroInsurancect Tier"]

\* The row of a user who signed the plain value in TierSelection.tsx; the
\* client posts the domain it signed under and register-tier stores it.
TierSelectionRow(u) ==
    [typed_data_json |-> [domain |-> TierSelectionDomain,
                          value |-> PlainRow(u).typed_data_json.value],
     signature |-> Sign(u, TierSelectionDomain, PlainRow(u).typed_data_json.value),
     is_active |-> TRUE]

\* The rows of the database when every user has registered once.
InitRows ==
    /\ \/ \E d \in Users :
             \E r \in StoredRows(d) \cup ForeignRows(d) \cup {TierSelectionRow(d)} :
                authorizations =
                    [u \in Users |-> IF u = d THEN <<r>> ELSE <<PlainRow(u)>>]
       \/ authorizations = [u \in Users |-> <<FreeRow(u)>>]
    /\ usersTable = [u \in Users |->
           UserRow(u, authorizations[u][1].typed_data_json.value.amount)]

\* Every user registered once and no payment made yet.  Either at most one
\* of the stored authorizations differs from the plain one, or every user
\* signed for the free tier.
Init ==
    /\ InitContract
    /\ walletBalance \in {1, 2}
    /\ InitRows
    /\ InitRun
    /\ InitClaims
    /\ rpcFails = {}
    /\ evaluated = NoEval

\* ------------------------------------------------------ the relayer scripts
Simple == "simple-batch-test.js"
BatchTs == "unnamed/part_005"
Relayer == "test-relayer.ts"
Comprehensive == "unnamed/part_004"
WithContract == "test-with-contract.js"
Scripts == {Simple, BatchTs, Relayer, Comprehensive, WithContract}

Running == {"filter", "validate", "presubmit", "dryrun", "preflight", "submit", "update"}

\* function isRelayer(address)
isRelayer(st, a) == a \in st.relayers

\* The rows of the users query: active users joined (inner) with their active
\* authorizations, cut at the query's limit.
Limit(s) == IF s \in {Simple, Comprehensive} THEN 5
            ELSE IF s = WithContract THEN 3 ELSE Len(UserOrder)

IsActive(r) == r.is_active

RECURSIVE Reverse(_)
Reverse(q) == IF q = <<>> THEN <<>> ELSE Append(Reverse(Tail(q)), Head(q))

\* The orders in which a query can return the active authorizations of user
\* u.  The rows are stored in the order of their creation.  part_005 and
\* test-relayer.ts ask for created_at descending; the other scripts ask for no
\* order and get the rows in any.
Orderings(u, s) ==
    LET active == SelectSeq(authorizations[u], IsActive)
    IN IF s \in {BatchTs, Relayer}
       THEN {Reverse(active)}
       ELSE {[k \in 1..Len(active) |-> active[p[k]]] :
                p \in Permutations(1..Len(active))}

Embeddings(s) ==
    {e \in [Users -> UNION {Orderings(u, s) : u \in Users}] :
        \A u \in Users : e[u] \in Orderings(u, s)}

Joined(u, auths) ==
    [id |-> u,
     wallet_address |-> usersTable[u].wallet_address,
     monthly_fee |-> usersTable[u].monthly_fee,
     last_paid_at |-> usersTable[u].last_paid_at,
     authorizations |-> auths]

RECURSIVE QueryFrom(_, _)
QueryFrom(order, e) ==
    IF order = <<>> THEN <<>>
    ELSE LET u == Head(order)
         IN IF usersTable[u].is_active /\ e[u] # <<>>
            THEN <<Joined(u, e[u])>> \o QueryFrom(Tail(order), e)
            ELSE QueryFrom(Tail(order), e)

Query(s, e) ==
    LET all == QueryFrom(UserOrder, e)
    IN IF Len(all) > Limit(s) THEN SubSeq(all, 1, Limit(s)) ELSE all

\* The candidate at position i of the fetched rows and its authorization.
Cand(i) == runUsers[i]
AuthOf(i) == Cand(i).authorizations[1]
TypedData(i) == AuthOf(i).typed_data_json

\* recovered.toLowerCase() === user.wallet_address.toLowerCase()
SignatureMatches(user, auth) ==
    toLowerCase(verifyTypedData(auth.typed_data_json.domain,
                                auth.typed_data_json.value, auth.signature))
        = toLowerCase(user.wallet_address)

\* A comparison that lets every nonce through.
NonceMatches_any(value, onChainNonce) == TRUE

\* BigInt(typedData.value.nonce) === onChainNonce
NonceMatches(value, onChainNonce) == value.nonce = onChainNonce

\* part_005: timeSinceLastPayment >= PAYMENT_PERIOD, from users.last_paid_at
MirrorReady(user, t) ==
    LET lastPaid == IF user.last_paid_at # 0 THEN user.last_paid_at ELSE 0
    IN t - lastPaid >= PAYMENT_PERIOD

\* part_004 and test-with-contract.js:
\* !(lastPaid > 0 && now < Number(lastPaid) + paymentPeriod)
ChainReady(lastPaid, t) == ~(lastPaid > 0 /\ t < lastPaid + PAYMENT_PERIOD)

\* A read of nonces(w) or lastPaidAt(w) is answered with an RPC error.
ReadFails(w) == w \in rpcFails

\* The script starts: it reads the balance and queries the users.
StartRun(s) ==
    /\ pc = "idle"
    /\ script' = s
    /\ balance' = walletBalance
    /\ \E e \in Embeddings(s) : runUsers' = Query(s, e)
    /\ nowRead' = now
    /\ idx' = 1
    /\ nonceRead' = [u \in Users |-> -1]
    /\ usersAtStart' = usersTable
    /\ sent' = <<>>
    /\ pc' = IF s = BatchTs /\ balance' = 0 THEN "exited"
             ELSE IF runUsers' = <<>> THEN "done"
             ELSE IF s \in {Comprehensive, WithContract} /\ ~isRelayer(Storage, Owner)
                  THEN "done"
             ELSE IF s \in {BatchTs, Comprehensive} THEN "filter"
             ELSE IF s = Relayer THEN "preflight"
             ELSE "validate"
    /\ UNCHANGED <<claimVars, envVars, chainVars, now, tierUpdates, walletBalance, lastOutcome, lastCall,
                   dbVars, readyUsers, validUsers, batchAuths, batchSignatures,
                   totalAmount, timestamp, written, confirmedUsers, otherRun>>

\* A script that goes on although its list is empty.
AfterLoop_goOn(list, next) == next

\* if (list.length === 0) return: the run ends when a loop left nothing.
AfterLoop(list, next) == IF list = <<>> THEN "done" ELSE next

RECURSIVE ReadyByMirror(_, _)
ReadyByMirror(i, t) ==
    IF i > Len(runUsers) THEN <<>>
    ELSE (IF MirrorReady(Cand(i), t) THEN <<i>> ELSE <<>>) \o ReadyByMirror(i + 1, t)

\* part_005, lines 106-134: the users whose mirror says a period has elapsed
BatchFilter ==
    /\ pc = "filter" /\ script = BatchTs
    /\ readyUsers' = ReadyByMirror(1, nowRead)
    /\ pc' = AfterLoop(readyUsers', "validate")
    /\ idx' = 1
    /\ UNCHANGED <<claimVars, envVars, chainVars, now, tierUpdates, walletBalance, lastOutcome, lastCall,
                   dbVars, script, balance, runUsers, validUsers, batchAuths,
                   batchSignatures, totalAmount, nowRead, timestamp, nonceRead,
                   usersAtStart, written, confirmedUsers, sent, otherRun>>

\* part_004, lines 139-155: one user of the payment-due loop; an error thrown
\* by contract.lastPaidAt leaves processPayments and reaches the catch block of
\* lines 89-92, which ends the process
ComprehensiveFilter ==
    /\ pc = "filter" /\ script = Comprehensive
    /\ LET lastPaid == lastPaidAt[Cand(idx).wallet_address.addr]
       IN readyUsers' = IF ChainReady(lastPaid, now)
                           /\ ~ReadFails(Cand(idx).wallet_address.addr)
                        THEN Append(readyUsers, idx) ELSE readyUsers
    /\ IF ReadFails(Cand(idx).wallet_address.addr)
       THEN idx' = idx /\ pc' = "exited"
       ELSE IF idx < Len(runUsers)
            THEN idx' = idx + 1 /\ pc' = pc
            ELSE idx' = 1 /\ pc' = AfterLoop(readyUsers', "validate")
    /\ UNCHANGED <<claimVars, envVars, chainVars, now, tierUpdates, walletBalance, lastOutcome, lastCall,
                   dbVars, script, balance, runUsers, validUsers, batchAuths,
                   batchSignatures, totalAmount, nowRead, timestamp, nonceRead,
                   usersAtStart, written, confirmedUsers, sent, otherRun>>

\* The positions the validation loop of a script walks through.
CandList ==
    IF script \in {BatchTs, Comprehensive} THEN readyUsers
    ELSE IF script = WithContract THEN <<1>>
    ELSE [i \in 1..Len(runUsers) |-> i]

\* simple-batch-test.js, lines 89-131: one user of the validation loop; an
\* error thrown by contract.nonces is caught inside the loop (lines 123-125)
SimpleValidate ==
    /\ pc = "validate" /\ script = Simple
    /\ LET i == CandList[idx]
           sigOk == SignatureMatches(Cand(i), AuthOf(i))
           onChainNonce == nonces[Cand(i).wallet_address.addr]
           thrown == sigOk /\ ReadFails(Cand(i).wallet_address.addr)
           accept == sigOk /\ ~thrown
                     /\ NonceMatches(TypedData(i).value, onChainNonce)
       IN /\ nonceRead' =
              IF sigOk /\ ~thrown
              THEN [nonceRead EXCEPT ![Cand(i).wallet_address.addr] = onChainNonce]
              ELSE nonceRead
          /\ validUsers' = IF accept THEN Append(validUsers, i) ELSE validUsers
    /\ IF idx < Len(CandList)
       THEN idx' = idx + 1 /\ pc' = pc
       ELSE idx' = 1 /\ pc' = AfterLoop(validUsers', "presubmit")
    /\ UNCHANGED <<claimVars, envVars, chainVars, now, tierUpdates, walletBalance, lastOutcome, lastCall,
                   dbVars, script, balance, runUsers, readyUsers, batchAuths,
                   batchSignatures, totalAmount, nowRead, timestamp,
                   usersAtStart, written, confirmedUsers, sent, otherRun>>

\* A loop that puts the value at the front and the signature at the end.
Push_front(i, accept) ==
    /\ batchAuths' = IF accept THEN <<TypedData(i).value>> \o batchAuths
                     ELSE batchAuths
    /\ batchSignatures' = IF accept THEN Append(batchSignatures, AuthOf(i).signature)
                          ELSE batchSignatures
    /\ totalAmount' = IF accept THEN totalAmount + TypedData(i).value.amount
                      ELSE totalAmount

\* What the loops that fill the batch arrays do with position i.
Push(i, accept) ==
    /\ batchAuths' = IF accept THEN Append(batchAuths, TypedData(i).value)
                     ELSE batchAuths
    /\ batchSignatures' = IF accept THEN Append(batchSignatures, AuthOf(i).signature)
                          ELSE batchSignatures
    /\ totalAmount' = IF accept THEN totalAmount + TypedData(i).value.amount
                      ELSE totalAmount

\* part_005, lines 143-189: one user of the validation loop
BatchValidate ==
    /\ pc = "validate" /\ script = BatchTs
    /\ LET i == CandList[idx]
           sigOk == SignatureMatches(Cand(i), AuthOf(i))
           onChainNonce == nonces[Cand(i).wallet_address.addr]
       IN /\ nonceRead' =
              IF sigOk
              THEN [nonceRead EXCEPT ![Cand(i).wallet_address.addr] = onChainNonce]
              ELSE nonceRead
          /\ Push(i, sigOk /\ NonceMatches(TypedData(i).value, onChainNonce))
    /\ IF idx < Len(CandList)
       THEN idx' = idx + 1 /\ pc' = pc
       ELSE idx' = 1 /\ pc' = AfterLoop(batchAuths', "presubmit")
    /\ UNCHANGED <<claimVars, envVars, chainVars, now, tierUpdates, walletBalance, lastOutcome, lastCall,
                   dbVars, script, balance, runUsers, readyUsers, validUsers,
                   nowRead, timestamp, usersAtStart, written, confirmedUsers, sent, otherRun>>

\* part_004, lines 162-190: one user of the signature loop
ComprehensiveValidate ==
    /\ pc = "validate" /\ script = Comprehensive
    /\ LET i == CandList[idx]
       IN Push(i, SignatureMatches(Cand(i), AuthOf(i)))
    /\ IF idx < Len(CandList)
       THEN idx' = idx + 1 /\ pc' = pc
       ELSE idx' = 1 /\ pc' = AfterLoop(batchAuths', "submit")
    /\ UNCHANGED <<claimVars, envVars, chainVars, now, tierUpdates, walletBalance, lastOutcome, lastCall,
                   dbVars, script, balance, runUsers, readyUsers, validUsers,
                   nowRead, timestamp, nonceRead, usersAtStart, written,
                   confirmedUsers, sent, otherRun>>

\* test-with-contract.js, lines 181-202: the batch loop over users.slice(0, 1)
WithContractAssemble ==
    /\ pc = "validate" /\ script = WithContract
    /\ LET i == CandList[idx]
           lastPaid == lastPaidAt[Cand(i).wallet_address.addr]
       IN Push(i, ChainReady(lastPaid, now))
    /\ IF idx < Len(CandList)
       THEN idx' = idx + 1 /\ pc' = pc
       ELSE idx' = 1 /\ pc' = AfterLoop(batchAuths', "presubmit")
    /\ UNCHANGED <<claimVars, envVars, chainVars, now, tierUpdates, walletBalance, lastOutcome, lastCall,
                   dbVars, script, balance, runUsers, readyUsers, validUsers,
                   nowRead, timestamp, nonceRead, usersAtStart, written,
                   confirmedUsers, sent, otherRun>>

\* simple-batch-test.js, lines 133-153: the batch arrays and the balance check
SimplePrepare ==
    /\ pc = "presubmit" /\ script = Simple
    /\ batchAuths' = [k \in 1..Len(validUsers) |-> TypedData(validUsers[k]).value]
    /\ batchSignatures' = [k \in 1..Len(validUsers) |-> AuthOf(validUsers[k]).signature]
    /\ totalAmount' = SumAmounts(batchAuths')
    /\ pc' = IF balance < totalAmount' THEN "done" ELSE "submit"
    /\ UNCHANGED <<claimVars, envVars, chainVars, now, tierUpdates, walletBalance, lastOutcome, lastCall,
                   dbVars, script, balance, runUsers, idx, readyUsers, validUsers,
                   nowRead, timestamp, nonceRead, usersAtStart, written,
                   confirmedUsers, sent, otherRun>>

\* part_005, lines 195-199, and test-with-contract.js, lines 206-210
BalanceCheck ==
    /\ pc = "presubmit" /\ script \in {BatchTs, WithContract}
    /\ pc' = IF balance < totalAmount THEN "done" ELSE "dryrun"
    /\ UNCHANGED <<claimVars, envVars, chainVars, now, tierUpdates, walletBalance, lastOutcome, lastCall,
                   dbVars, script, balance, runUsers, idx, readyUsers, validUsers,
                   batchAuths, batchSignatures, totalAmount, nowRead, timestamp,
                   nonceRead, usersAtStart, written, confirmedUsers, sent, otherRun>>

\* What the node answers to a call or transaction of the scripts' wallet.
CallResult(as, sigs, value) ==
    IF walletBalance < value THEN "insufficient funds"
    ELSE RevertReason(Storage, Owner, as, sigs, value, now)

AbiAuths(values) == [k \in 1..Len(values) |-> AbiAuth(values[k])]

\* contract.payBatch.estimateGas(auths, signatures, { value: totalAmount })
EstimateGas ==
    /\ pc = "dryrun" /\ script \in {BatchTs, WithContract}
    /\ LET reason == CallResult(AbiAuths(batchAuths), batchSignatures, totalAmount)
       IN /\ lastCall' = Call(script, "estimateGas", batchAuths, batchSignatures,
                              totalAmount, reason)
          /\ pc' = IF reason = "ok" THEN "submit" ELSE "done"
    /\ UNCHANGED <<claimVars, envVars, chainVars, now, tierUpdates, walletBalance, lastOutcome,
                   dbVars, script, balance, runUsers, idx, readyUsers, validUsers,
                   batchAuths, batchSignatures, totalAmount, nowRead, timestamp,
                   nonceRead, usersAtStart, written, confirmedUsers, sent, otherRun>>

\* test-relayer.ts: the loop goes on with the next user, or ends.
NextUser ==
    IF idx < Len(runUsers)
    THEN idx' = idx + 1 /\ pc' = "preflight"
    ELSE idx' = idx /\ pc' = "done"

\* Number(value?.validUntil ?? 0) <= now
Expired(validUntil, t) == validUntil <= t

\* test-relayer.ts, lines 107-137: the checks before the dry-run
PreflightChecks(user, auth) ==
    LET domain == auth.typed_data_json.domain
        value == auth.typed_data_json.value
        sig == auth.signature
    IN /\ domain.chainId = RuntimeChainId
       /\ domain.verifyingContract = ContractAddress
       /\ sig.len = 65
       /\ SignatureMatches(user, auth)
       /\ ~Expired(value.validUntil, now)
       /\ toLowerCase(value.user) = toLowerCase(user.wallet_address)

\* nowTs < Number(last) + Number(value.period)
TooEarly(last, period, t) == t < last + period

\* test-relayer.ts, lines 99-151: one user up to the decision to send
RelayerPreflight ==
    /\ pc = "preflight" /\ script = Relayer
    /\ LET user == Cand(idx)
           auth == AuthOf(idx)
           value == auth.typed_data_json.value
           sig == auth.signature
           w == user.wallet_address.addr
           dry == CallResult(AbiAuths(<<value>>), <<sig>>, 0)
       IN IF ~PreflightChecks(user, auth)
          THEN /\ NextUser
               /\ UNCHANGED <<lastCall, nonceRead, batchAuths, batchSignatures>>
          ELSE /\ lastCall' = Call(script, "staticCall", <<value>>, <<sig>>, 0, dry)
               /\ IF dry # "ok"
                  THEN /\ NextUser
                       /\ UNCHANGED <<nonceRead, batchAuths, batchSignatures>>
                  ELSE /\ nonceRead' = [nonceRead EXCEPT ![w] = nonces[w]]
                       /\ IF NonceMatches(value, nonces[w])
                             /\ ~TooEarly(lastPaidAt[w], value.period, now)
                          THEN /\ batchAuths' = <<value>>
                               /\ batchSignatures' = <<sig>>
                               /\ pc' = "submit" /\ idx' = idx
                          ELSE /\ NextUser
                               /\ UNCHANGED <<batchAuths, batchSignatures>>
    /\ UNCHANGED <<claimVars, envVars, chainVars, now, tierUpdates, walletBalance, lastOutcome,
                   dbVars, script, balance, runUsers, readyUsers, validUsers,
                   totalAmount, nowRead, timestamp, usersAtStart, written,
                   confirmedUsers, sent, otherRun>>

\* The value the script attaches to the transaction; test-relayer.ts attaches none.
TxValue == IF script = Relayer THEN 0 ELSE totalAmount

BatchUsers(values) == {values[k].user.addr : k \in 1..Len(values)}

\* contract.payBatch(auths, signatures, { value }) followed by tx.wait()
Submit ==
    /\ pc = "submit"
    /\ LET as == AbiAuths(batchAuths)
           reason == CallResult(as, batchSignatures, TxValue)
       IN /\ lastCall' = Call(script, "send", batchAuths, batchSignatures, TxValue, reason)
          /\ sent' = Append(sent, [users |-> BatchUsers(batchAuths),
                                   confirmed |-> reason = "ok"])
          /\ lastOutcome' = IF reason = "insufficient funds" THEN lastOutcome
                            ELSE Outcome(Storage, Owner, as, batchSignatures, TxValue, now)
          /\ IF reason = "ok"
             THEN /\ SetStorage(payBatch(Storage, Owner, as, batchSignatures, TxValue, now))
                  /\ walletBalance' = walletBalance - TxValue
                  /\ confirmedUsers' = confirmedUsers \cup BatchUsers(batchAuths)
                  /\ timestamp' = now
                  /\ pc' = "update"
                  /\ idx' = IF script = Relayer THEN idx ELSE 1
             ELSE /\ UNCHANGED <<chainVars, walletBalance, confirmedUsers, timestamp>>
                  /\ IF script = Relayer THEN NextUser ELSE pc' = "done" /\ idx' = idx
    /\ UNCHANGED <<claimVars, envVars, now, tierUpdates, dbVars, script, balance, runUsers, readyUsers,
                   validUsers, batchAuths, batchSignatures, totalAmount, nowRead,
                   nonceRead, usersAtStart, written, otherRun>>

\* The positions whose users row the script updates after the confirmation.
UpdateList ==
    IF script = Simple THEN validUsers
    ELSE IF script \in {BatchTs, Comprehensive}
         THEN SubSeq(readyUsers, 1, Len(batchAuths))
    ELSE IF script = WithContract THEN [k \in 1..Len(batchAuths) |-> k]
    ELSE <<idx>>

\* The row one update statement leaves for the fetched row `user`.
UpdatedRow(row, user) ==
    IF script \in {BatchTs, Comprehensive}
    THEN [row EXCEPT !.last_paid_at = timestamp,
                     !.total_paid = 0 + user.monthly_fee]
    ELSE [row EXCEPT !.last_paid_at = timestamp]

\* One supabase update of the loop that follows tx.wait()
UpdateUser ==
    /\ pc = "update"
    /\ LET k == IF script = Relayer THEN 1 ELSE idx
           user == Cand(UpdateList[k])
       IN /\ usersTable' = [usersTable EXCEPT ![user.id] = UpdatedRow(@, user)]
          /\ written' = written \cup {user.id}
          /\ IF script = Relayer THEN NextUser
             ELSE IF k < Len(UpdateList) THEN idx' = idx + 1 /\ pc' = pc
             ELSE idx' = idx /\ pc' = "done"
    /\ UNCHANGED <<claimVars, envVars, chainVars, now, tierUpdates, walletBalance, lastOutcome, lastCall,
                   authorizations, script, balance, runUsers, readyUsers, validUsers,
                   batchAuths, batchSignatures, totalAmount, nowRead, timestamp,
                   nonceRead, usersAtStart, confirmedUsers, sent, otherRun>>

\* The process is killed; what it held in memory is gone.
Stop ==
    /\ pc \in Running
    /\ pc' = "stopped"
    /\ balance' = 0
    /\ runUsers' = <<>>
    /\ idx' = 0
    /\ readyUsers' = <<>>
    /\ validUsers' = <<>>
    /\ batchAuths' = <<>>
    /\ batchSignatures' = <<>>
    /\ totalAmount' = 0
    /\ nowRead' = 0
    /\ timestamp' = 0
    /\ UNCHANGED <<claimVars, envVars, chainVars, now, tierUpdates, walletBalance, lastOutcome, lastCall,
                   dbVars, script, nonceRead, usersAtStart, written, confirmedUsers, sent, otherRun>>

\* Another relayer has a payment of user u confirmed, with an authorization
\* the user signed for the current nonce and fee.
OtherRelayerPay(u) ==
    /\ pc = "idle"
    /\ nonces[u] + 1 < MaxNonce
    /\ LET v == Value(u, 1, tiers[1].monthlyFee, PAYMENT_PERIOD, now, nonces[u])
           as == <<AbiAuth(v)>>
           sigs == <<Sign(u, ContractDomain, v)>>
       IN /\ RevertReason(Storage, Owner, as, sigs, v.amount, now) = "ok"
          /\ lastOutcome' = Outcome(Storage, Owner, as, sigs, v.amount, now)
          /\ SetStorage(payBatch(Storage, Owner, as, sigs, v.amount, now))
    /\ UNCHANGED <<claimVars, envVars, now, tierUpdates, walletBalance, lastCall, dbVars, runVars>>

Next ==
    \/ Tick
    \/ UpdateTier
    \/ \E u \in Users : OtherRelayerPay(u)
    \/ \E s \in Scripts : StartRun(s)
    \/ BatchFilter
    \/ ComprehensiveFilter
    \/ SimpleValidate
    \/ BatchValidate
    \/ ComprehensiveValidate
    \/ WithContractAssemble
    \/ SimplePrepare
    \/ BalanceCheck
    \/ EstimateGas
    \/ RelayerPreflight
    \/ Submit
    \/ UpdateUser
    \/ Stop

Spec == Init /\ [][Next]_vars

\* ------------------------------------------- registration and admin actions
MaxRegistrations == 3   \* number of register-tier requests in a behaviour

RECURSIVE CountRows(_)
CountRows(S) ==
    IF S = {} THEN 0
    ELSE LET u == CHOOSE x \in S : TRUE
         IN Len(authorizations[u]) + CountRows(S \ {u})

\* The fee the clients show for a tier, in the unit of the model.
tierAmounts == [t \in TierIds |-> Constructor.tiers[t].monthlyFee]

\* GET /api/user-nonce for the account whose users row is `id`: the nonce
\* column of the row, 0 when there is no row or the column is empty.
userNonce(id) == IF usersTable[id] = NoRow THEN 0 ELSE usersTable[id].nonce

\* POST /api/register-tier by the account whose users row is `id`, with
\* `walletAddress` connected and `tier` chosen in the client: the client
\* fetches the nonce, signs, and the users row is upserted on auth_user_id
\* and an authorizations row is inserted.
RegisterTier(id, walletAddress, tier) ==
    /\ pc = "idle"
    /\ CountRows(Users) < MaxRegistrations
    /\ LET value == Value(walletAddress, tier, tierAmounts[tier],
                          PAYMENT_PERIOD, MaxTime, userNonce(id))
       IN /\ usersTable' =
                [usersTable EXCEPT ![id] =
                    [@ EXCEPT !.wallet_address = toLowerCase(JsAddr(walletAddress, FALSE)),
                              !.tier = tier,
                              !.monthly_fee = value.amount,
                              !.nonce = value.nonce,
                              !.is_active = TRUE]]
          /\ authorizations' =
                [authorizations EXCEPT ![id] = Append(@, AuthRow(value, walletAddress))]
    /\ UNCHANGED <<claimVars, envVars, chainVars, now, tierUpdates, walletBalance, lastOutcome, lastCall,
                   runVars>>

\* update({ is_active: false }) on a list of authorizations rows
Deactivate(rows) == [k \in 1..Len(rows) |-> [rows[k] EXCEPT !.is_active = FALSE]]

\* The admin page's updateUserTier(userId, newTier)
updateUserTier(userId, newTier) ==
    /\ pc = "idle"
    /\ usersTable[userId] # NoRow
    /\ usersTable' = [usersTable EXCEPT ![userId] =
                         [@ EXCEPT !.tier = newTier, !.is_active = FALSE]]
    /\ authorizations' = [authorizations EXCEPT ![userId] = Deactivate(@)]
    /\ UNCHANGED <<claimVars, envVars, chainVars, now, tierUpdates, walletBalance, lastOutcome, lastCall,
                   runVars>>

\* scripts/fix-database-amounts.js
fixDatabaseAmounts ==
    /\ pc = "idle"
    /\ usersTable' =
          [u \in Users |->
              LET user == usersTable[u]
              IN IF /\ user.is_active
                    /\ user.tier \in TierIds
                    /\ user.monthly_fee # tierAmounts[user.tier]
                 THEN [user EXCEPT !.monthly_fee = tierAmounts[user.tier],
                                   !.is_active = FALSE]
                 ELSE user]
    /\ authorizations' = [u \in Users |-> Deactivate(authorizations[u])]
    /\ UNCHANGED <<claimVars, envVars, chainVars, now, tierUpdates, walletBalance, lastOutcome, lastCall,
                   runVars>>

NextRegister ==
    \/ \E id \in Users, walletAddress \in Users, tier \in {1, 2} :
          RegisterTier(id, walletAddress, tier)
    \/ \E userId \in Users, newTier \in {1, 2} : updateUserTier(userId, newTier)
    \/ fixDatabaseAmounts
    \/ \E s \in Scripts : StartRun(s)

\* Accounts register, the admin intervenes, and at some point a script
\* fetches its candidates.
SpecRegister == InitChain /\ [][NextRegister]_vars

\* ------------------------------------------------- two overlapping runs
\* The second process runs simple-batch-test.js against the same database and
\* contract, with the same PRIVATE_KEY.

\* lines 96-126: the signature recovers to the row's wallet and the signed
\* nonce is the on-chain nonce.
OtherValid(user) ==
    /\ SignatureMatches(user, user.authorizations[1])
    /\ NonceMatches(user.authorizations[1].typed_data_json.value,
                    nonces[user.wallet_address.addr])

OtherAuths == [k \in 1..Len(otherRun.validUsers) |->
                  otherRun.validUsers[k].authorizations[1].typed_data_json.value]
OtherSignatures == [k \in 1..Len(otherRun.validUsers) |->
                       otherRun.validUsers[k].authorizations[1].signature]

\* lines 50-153: the query, the validation loop, the arrays and the balance check
OtherAssemble ==
    /\ otherRun.pc = "idle"
    /\ \E e \in Embeddings(Simple) :
          LET valid == SelectSeq(Query(Simple, e), OtherValid)
              values == [k \in 1..Len(valid) |->
                            valid[k].authorizations[1].typed_data_json.value]
          IN otherRun' =
                IF valid = <<>> \/ walletBalance < SumAmounts(values)
                THEN [NoOtherRun EXCEPT !.pc = "done"]
                ELSE [NoOtherRun EXCEPT !.pc = "submit", !.validUsers = valid]
    /\ UNCHANGED <<claimVars, envVars, chainVars, now, tierUpdates, walletBalance, lastOutcome, lastCall,
                   dbVars, script, pc, balance, runUsers, idx, readyUsers, validUsers,
                   batchAuths, batchSignatures, totalAmount, nowRead, timestamp,
                   nonceRead, usersAtStart, written, confirmedUsers, sent>>

RECURSIVE MarkPaid(_, _, _)
MarkPaid(table, rows, t) ==
    IF rows = <<>> THEN table
    ELSE MarkPaid([table EXCEPT ![Head(rows).id].last_paid_at = t], Tail(rows), t)

\* lines 155-177: the transaction, tx.wait() and the update of last_paid_at
OtherSubmit ==
    /\ otherRun.pc = "submit"
    /\ LET as == AbiAuths(OtherAuths)
           value == SumAmounts(OtherAuths)
           reason == CallResult(as, OtherSignatures, value)
       IN /\ lastOutcome' = IF reason = "insufficient funds" THEN lastOutcome
                            ELSE Outcome(Storage, Owner, as, OtherSignatures, value, now)
          /\ IF reason = "ok"
             THEN /\ SetStorage(payBatch(Storage, Owner, as, OtherSignatures, value, now))
                  /\ walletBalance' = walletBalance - value
                  /\ usersTable' = MarkPaid(usersTable, otherRun.validUsers, now)
                  /\ otherRun' = [otherRun EXCEPT !.pc = "done", !.confirmed = TRUE,
                                     !.written = {otherRun.validUsers[k].id :
                                                     k \in 1..Len(otherRun.validUsers)}]
             ELSE /\ UNCHANGED <<chainVars, walletBalance, usersTable>>
                  /\ otherRun' = [otherRun EXCEPT !.pc = "done"]
    /\ UNCHANGED <<claimVars, envVars, now, tierUpdates, lastCall, authorizations, script, pc, balance,
                   runUsers, idx, readyUsers, validUsers, batchAuths, batchSignatures,
                   totalAmount, nowRead, timestamp, nonceRead, usersAtStart, written,
                   confirmedUsers, sent>>

\* The deployed contract, nobody registered yet, the scripts' wallet funded.
InitTwoRuns ==
    /\ InitContract
    /\ walletBalance = 2
    /\ usersTable = [u \in Users |-> NoRow]
    /\ authorizations = [u \in Users |-> <<>>]
    /\ InitRun
    /\ InitClaims
    /\ rpcFails = {}
    /\ evaluated = NoEval

NextTwoRuns ==
    \/ \E id \in Users, walletAddress \in Users : RegisterTier(id, walletAddress, 1)
    \/ \E s \in Scripts : StartRun(s)
    \/ BatchFilter
    \/ ComprehensiveFilter
    \/ SimpleValidate
    \/ BatchValidate
    \/ ComprehensiveValidate
    \/ WithContractAssemble
    \/ SimplePrepare
    \/ BalanceCheck
    \/ EstimateGas
    \/ RelayerPreflight
    \/ Submit
    \/ UpdateUser
    \/ OtherAssemble
    \/ OtherSubmit

\* Accounts register; then a run of any script and a run of
\* simple-batch-test.js by a second process interleave step by step.
SpecTwoRuns == InitTwoRuns /\ [][NextTwoRuns]_vars

\* ------------------------------------------------------- repeated runs
\* The process of a run has ended (the script returned, exited, or was
\* killed); the next invocation starts with nothing in memory.
Finish ==
    /\ pc \in {"done", "stopped", "exited"}
    /\ script' = "none"
    /\ pc' = "idle"
    /\ balance' = 0
    /\ runUsers' = <<>>
    /\ idx' = 0
    /\ readyUsers' = <<>>
    /\ validUsers' = <<>>
    /\ batchAuths' = <<>>
    /\ batchSignatures' = <<>>
    /\ totalAmount' = 0
    /\ nowRead' = 0
    /\ timestamp' = 0
    /\ nonceRead' = [u \in Users |-> -1]
    /\ usersAtStart' = <<>>
    /\ written' = {}
    /\ confirmedUsers' = {}
    /\ sent' = <<>>
    /\ lastCall' = NoCall
    /\ UNCHANGED <<claimVars, envVars, chainVars, now, tierUpdates, walletBalance, lastOutcome,
                   dbVars, otherRun>>

\* Every user has signed once, for tier 1 or for a free tier; the wallet of
\* the scripts is funded.
InitRepeat ==
    /\ InitContract
    /\ walletBalance \in {2, 3}
    /\ \/ authorizations = [u \in Users |-> <<PlainRow(u)>>]
       \/ authorizations = [u \in Users |-> <<FreeRow(u)>>]
    /\ usersTable = [u \in Users |->
           UserRow(u, authorizations[u][1].typed_data_json.value.amount)]
    /\ InitRun
    /\ InitClaims
    /\ rpcFails = {}
    /\ evaluated = NoEval

\* One step of the running script.
RunStep ==
    \/ BatchFilter
    \/ ComprehensiveFilter
    \/ SimpleValidate
    \/ BatchValidate
    \/ ComprehensiveValidate
    \/ WithContractAssemble
    \/ SimplePrepare
    \/ BalanceCheck
    \/ EstimateGas
    \/ RelayerPreflight
    \/ Submit
    \/ UpdateUser

NextRepeat ==
    \/ Tick
    \/ \E s \in Scripts : StartRun(s)
    \/ RunStep
    \/ Stop
    \/ Finish

\* The relayer is run again and again, and no user signs anything new.  A
\* started script goes on unless it is killed, an ended process is followed
\* by another invocation, and time passes.
SpecRepeat ==
    /\ InitRepeat
    /\ [][NextRepeat]_vars
    /\ WF_vars(Tick)
    /\ WF_vars(\E s \in Scripts : StartRun(s))
    /\ WF_vars(RunStep)
    /\ WF_vars(Finish)

\* ------------------------------------------- signing again after a payment
\* Each account connects its own wallet and signs in the client, for the
\* nonce that GET /api/user-nonce returns; the relayer is run, its process
\* ends, time passes, and the account signs again.
NextResign ==
    \/ Tick
    \/ \E id \in Users : RegisterTier(id, id, 1)
    \/ \E s \in Scripts : StartRun(s)
    \/ RunStep
    \/ Finish

SpecResign == InitTwoRuns /\ [][NextResign]_vars

\* ------------------------------------------- the pre-checks on their own
\* test-relayer.ts, lines 130-151: the candidate is given up for its expiry
\* or its timing.
RejectedOffChain(value, last, t) ==
    Expired(value.validUntil, t) \/ TooEarly(last, value.period, t)

\* What the first pass of payBatch answers for the same authorization, duly
\* signed for the tier's fee and the user's nonce, when lastPaidAt[user] is
\* `last` and block.timestamp is t.
GuardReason(value, last, t) ==
    FirstPassEntry([Constructor EXCEPT !.lastPaidAt[value.user.addr] = last],
                   AbiAuth(value), Sign(value.user.addr, ContractDomain, value), t)

\* Both are evaluated for one choice of now, lastPaidAt, period and validUntil.
CheckGuards ==
    \E t \in 1..MaxTime, last \in 0..MaxTime, period \in Periods,
       validUntil \in 0..MaxTime :
        LET value == Value("u1", 1, Constructor.tiers[1].monthlyFee, period,
                           validUntil, 0)
        IN evaluated' = [fn |-> "guards", now |-> t, lastPaidAt |-> last,
                         value |-> value,
                         rejected |-> RejectedOffChain(value, last, t),
                         reason |-> GuardReason(value, last, t)]
    /\ UNCHANGED <<chainVars, now, tierUpdates, walletBalance, lastOutcome, lastCall,
                   dbVars, runVars, claimVars, rpcFails>>

SpecGuards == InitChain /\ [][CheckGuards]_vars

\* ------------------------------------------------- the relayer allowlist
\* addRelayer(relayer), sent by `sender`; onlyOwner reverts for anyone else
addRelayer(sender, relayer) ==
    /\ pc = "idle"
    /\ relayers' = IF sender = owner THEN relayers \cup {relayer} ELSE relayers
    /\ UNCHANGED <<owner, tiers, policies, nonces, lastPaidAt,
                   totalPremiumsCollected, premiumPaid, now, tierUpdates,
                   walletBalance, lastOutcome, lastCall, dbVars, runVars,
                   claimVars, envVars>>

\* removeRelayer(relayer), sent by `sender`
removeRelayer(sender, relayer) ==
    /\ pc = "idle"
    /\ relayers' = IF sender = owner THEN relayers \ {relayer} ELSE relayers
    /\ UNCHANGED <<owner, tiers, policies, nonces, lastPaidAt,
                   totalPremiumsCollected, premiumPaid, now, tierUpdates,
                   walletBalance, lastOutcome, lastCall, dbVars, runVars,
                   claimVars, envVars>>

\* A script whose PRIVATE_KEY is `wallet` reads isRelayer(wallet.address) and
\* submits only when it is true; next to it, what payBatch answers to that
\* wallet for a batch of one authorization that is in order.
CheckRelayer(wallet) ==
    /\ pc = "idle"
    /\ LET value == Value("u1", 1, tiers[1].monthlyFee, PAYMENT_PERIOD, MaxTime,
                          nonces["u1"])
           as == <<AbiAuth(value)>>
           sigs == <<Sign("u1", ContractDomain, value)>>
       IN evaluated' = [fn |-> "isRelayer", wallet |-> wallet,
                        isRelayer |-> isRelayer(Storage, wallet),
                        reason |-> RevertReason(Storage, wallet, as, sigs,
                                                value.amount, now)]
    /\ UNCHANGED <<chainVars, now, tierUpdates, walletBalance, lastOutcome, lastCall,
                   dbVars, runVars, claimVars, rpcFails>>

NextRelayers ==
    \/ \E sender \in {Owner, Mallory}, relayer \in Addresses :
          addRelayer(sender, relayer)
    \/ \E sender \in {Owner, Mallory}, relayer \in Addresses :
          removeRelayer(sender, relayer)
    \/ \E wallet \in Addresses : CheckRelayer(wallet)

\* The owner edits the allowlist, others try to, and wallets check their
\* status before they submit.
SpecRelayers == InitChain /\ [][NextRelayers]_vars

\* ------------------------------------------- runs with a failing RPC node
\* As Init, and the node fails the chain-state reads for some wallets.
InitRpc ==
    /\ InitContract
    /\ walletBalance \in {1, 2}
    /\ InitRows
    /\ InitRun
    /\ InitClaims
    /\ rpcFails \in SUBSET Users
    /\ evaluated = NoEval

NextRpc ==
    \/ \E s \in {Simple, Comprehensive} : StartRun(s)
    \/ ComprehensiveFilter
    \/ ComprehensiveValidate
    \/ SimpleValidate
    \/ SimplePrepare
    \/ Submit
    \/ UpdateUser

\* One run of simple-batch-test.js or of part_004.
SpecRpc == InitRpc /\ [][NextRpc]_vars

\* ------------------------------------------------- one undisturbed run
NextRun ==
    \/ \E s \in Scripts : StartRun(s)
    \/ RunStep

\* One run of a script that nothing interrupts: the process is not killed
\* and goes on to its end.
SpecRun == Init /\ [][NextRun]_vars /\ WF_vars(RunStep)

\* ------------------------------------------------ eligibility for a claim
\* MicroInsurance.submitClaim, its two requires: the revert reason, or "ok".
SubmitClaimReason(policy, tierTable) ==
    IF ~policy.active THEN "No active policy"
    ELSE IF ~(policy.totalPaid >= tierTable[policy.tier].monthlyFee * 6)
         THEN "Insufficient premiums"
    ELSE "ok"

\* lib/claimEligibility.ts, checkClaimEligibility: policy is what
\* getUserPolicy returned.  The BigInt division by a fee of 0 throws, and the
\* catch block answers "not eligible".
checkClaimEligibility(policy, tierMonthlyFee) ==
    IF ~policy.active
    THEN [eligible |-> FALSE, monthsPaid |-> 0]
    ELSE IF policy.totalPaid > 0 /\ tierMonthlyFee = 0
         THEN [eligible |-> FALSE, monthsPaid |-> 0]
    ELSE LET monthsPaid == IF policy.totalPaid > 0
                           THEN policy.totalPaid \div tierMonthlyFee ELSE 0
         IN [eligible |-> monthsPaid >= 6, monthsPaid |-> monthsPaid]

\* onboarding/page.tsx, checkContractEligibility: the fee is read with
\* getTier(userRecord.tier), the tier of the users row.
CheckEligibility ==
    \E active \in BOOLEAN, totalPaid \in 0..MaxTotalPaid, policyTier \in {1, 2},
       rowTier \in {1, 2}, fee1 \in 0..2, fee2 \in 0..2 :
        LET policy == [tier |-> policyTier, lastPaidAt |-> 0,
                       totalPaid |-> totalPaid, active |-> active]
            tierTable == [t \in TierIds |->
                            [Constructor.tiers[t] EXCEPT
                                !.monthlyFee = IF t = 1 THEN fee1
                                               ELSE IF t = 2 THEN fee2 ELSE @]]
        IN evaluated' =
              [fn |-> "eligibility", policy |-> policy, rowTier |-> rowTier,
               fees |-> <<fee1, fee2>>,
               result |-> checkClaimEligibility(policy, tierTable[rowTier].monthlyFee),
               reason |-> SubmitClaimReason(policy, tierTable)]
    /\ UNCHANGED <<chainVars, now, tierUpdates, walletBalance, lastOutcome, lastCall,
                   dbVars, runVars, claimVars, rpcFails>>

SpecEligibility == InitChain /\ [][CheckEligibility]_vars

\* ----------------------------------------------- claims and their payout
\* The storage after user u has paid n monthly premiums of tier 1, the k-th
\* at time k * PAYMENT_PERIOD.
RECURSIVE Premiums(_, _)
Premiums(u, n) ==
    IF n = 0 THEN Constructor
    ELSE LET st == Premiums(u, n - 1)
             value == Value(u, 1, st.tiers[1].monthlyFee, PAYMENT_PERIOD,
                            n * PAYMENT_PERIOD, st.nonces[u])
         IN payBatch(st, Owner, <<AbiAuth(value)>>,
                     <<Sign(u, ContractDomain, value)>>, value.amount,
                     n * PAYMENT_PERIOD)

Claimant == "u1"

\* u1 has paid six premiums and the mirror has followed; no claim yet.
InitClaimant ==
    /\ owner = Premiums(Claimant, 6).owner
    /\ relayers = Premiums(Claimant, 6).relayers
    /\ tiers = Premiums(Claimant, 6).tiers
    /\ policies = Premiums(Claimant, 6).policies
    /\ nonces = Premiums(Claimant, 6).nonces
    /\ lastPaidAt = Premiums(Claimant, 6).lastPaidAt
    /\ totalPremiumsCollected = Premiums(Claimant, 6).totalPremiumsCollected
    /\ premiumPaid = Premiums(Claimant, 6).premiumPaid
    /\ now = 6 * PAYMENT_PERIOD
    /\ tierUpdates = 0
    /\ lastOutcome = NoOutcome
    /\ lastCall = NoCall
    /\ walletBalance = 0
    /\ usersTable = [u \in Users |->
          IF u = Claimant
          THEN [UserRow(u, 1) EXCEPT !.last_paid_at = 6 * PAYMENT_PERIOD,
                                     !.total_paid = 1]
          ELSE NoRow]
    /\ authorizations = [u \in Users |-> <<>>]
    /\ InitRun
    /\ InitClaims
    /\ rpcFails = {}
    /\ evaluated = NoEval

\* onboarding/page.tsx, submitClaim (576-616): the eligibility the page has
\* computed from the contract, no pending or approved claim, and the insert.
InsertClaim(c) ==
    /\ usersTable[Claimant] # NoRow
    /\ checkClaimEligibility(policies[Claimant],
                             tiers[usersTable[Claimant].tier].monthlyFee).eligible
    /\ \A d \in ClaimIds : claimsTable[d].status \notin {"pending", "approved"}
    /\ claimsTable[c] = NoClaimRow
    /\ claimsTable' = [claimsTable EXCEPT ![c] = [NoClaimRow EXCEPT !.status = "pending"]]
    /\ UNCHANGED <<chainVars, now, tierUpdates, walletBalance, lastOutcome, lastCall,
                   dbVars, runVars, claims, nextClaimId, requests, envVars>>

\* MicroInsurance.submitClaim, called by the policy holder's wallet.
submitClaim(sender) ==
    /\ SubmitClaimReason(policies[sender], tiers) = "ok"
    /\ nextClaimId \in ClaimIds
    /\ claims' = [claims EXCEPT ![nextClaimId] =
                     [user |-> sender, policyTier |-> policies[sender].tier,
                      payoutAmount |-> 0, installmentsPaid |-> 0,
                      totalInstallments |-> 4, approvedAt |-> 0, active |-> TRUE]]
    /\ nextClaimId' = nextClaimId + 1
    /\ UNCHANGED <<chainVars, now, tierUpdates, walletBalance, lastOutcome, lastCall,
                   dbVars, runVars, claimsTable, requests, envVars>>

\* MicroInsurance.approveClaim: the revert reason, or "ok".
ApproveClaimReason(sender, claim) ==
    IF sender # owner THEN "Not owner"
    ELSE IF claim.user = NoClaim.user THEN "Claim not found"
    ELSE IF claim.approvedAt # 0 THEN "Already approved"
    ELSE "ok"

approveClaim(sender, claim, payoutAmount, ts) ==
    IF ApproveClaimReason(sender, claim) = "ok"
    THEN [claim EXCEPT !.payoutAmount = payoutAmount, !.approvedAt = ts]
    ELSE claim

\* The approve-claim route, POST (59-134): the update of the claims row, then
\* the approveClaim transaction of the admin wallet; a revert is answered
\* with status 500.  Amounts on-chain are in units of 0.001 BDG, one per Rand.
ApproveClaimRoute(claimId, payoutAmount) ==
    /\ claimsTable' =
          IF claimsTable[claimId] = NoClaimRow THEN claimsTable
          ELSE [claimsTable EXCEPT ![claimId] =
                   [@ EXCEPT !.status = "approved",
                             !.payout_amount = payoutAmount,
                             !.claim_start_date = now]]
    /\ claims' = [claims EXCEPT ![claimId] = approveClaim(Owner, @, payoutAmount, now)]
    /\ UNCHANGED <<chainVars, now, tierUpdates, walletBalance, lastOutcome, lastCall,
                   dbVars, runVars, nextClaimId, requests, envVars>>

\* MicroInsurance.processInstallment: the revert reason, or "ok".
ProcessInstallmentReason(sender, claim) ==
    IF sender # owner THEN "Not owner"
    ELSE IF ~(claim.approvedAt > 0) THEN "Not approved"
    ELSE IF ~(claim.installmentsPaid < claim.totalInstallments) THEN "Already completed"
    ELSE "ok"

processInstallment(sender, claim) ==
    IF ProcessInstallmentReason(sender, claim) = "ok"
    THEN [claim EXCEPT !.installmentsPaid = @ + 1,
                       !.active = IF claim.installmentsPaid + 1 >= claim.totalInstallments
                                  THEN FALSE ELSE @]
    ELSE claim

\* The process-payout route, POST (34-46): request r reads the claims row.
PayoutRead(r, claimId) ==
    /\ requests[r].pc = "idle"
    /\ claimsTable[claimId] # NoClaimRow
    /\ requests' = [requests EXCEPT ![r] =
                       [pc |-> "call", id |-> claimId, claim |-> claimsTable[claimId]]]
    /\ UNCHANGED <<chainVars, now, tierUpdates, walletBalance, lastOutcome, lastCall,
                   dbVars, runVars, claims, nextClaimId, claimsTable, envVars>>

\* lines 48-59: the processInstallment transaction and tx.wait(); a revert
\* ends the request in the catch block.
PayoutCall(r) ==
    /\ requests[r].pc = "call"
    /\ LET claimId == requests[r].id
           reason == ProcessInstallmentReason(Owner, claims[claimId])
       IN /\ claims' = [claims EXCEPT ![claimId] = processInstallment(Owner, @)]
          /\ requests' = [requests EXCEPT ![r] =
                             IF reason = "ok" THEN [@ EXCEPT !.pc = "update"]
                             ELSE NoRequest]
    /\ UNCHANGED <<chainVars, now, tierUpdates, walletBalance, lastOutcome, lastCall,
                   dbVars, runVars, nextClaimId, claimsTable, envVars>>

\* lines 61-71: the update of the claims row from the row read at the start
PayoutUpdate(r) ==
    /\ requests[r].pc = "update"
    /\ LET newInstallmentsPaid == requests[r].claim.installments_paid + 1
           newStatus == IF newInstallmentsPaid >= 4 THEN "completed" ELSE "approved"
       IN claimsTable' = [claimsTable EXCEPT ![requests[r].id] =
                             [@ EXCEPT !.installments_paid = newInstallmentsPaid,
                                       !.status = newStatus]]
    /\ requests' = [requests EXCEPT ![r] = NoRequest]
    /\ UNCHANGED <<chainVars, now, tierUpdates, walletBalance, lastOutcome, lastCall,
                   dbVars, runVars, claims, nextClaimId, envVars>>

NextClaims ==
    \/ \E c \in ClaimIds : InsertClaim(c)
    \/ submitClaim(Claimant)
    \/ \E c \in ClaimIds, payoutAmount \in {800, 1600} : ApproveClaimRoute(c, payoutAmount)
    \/ \E r \in Requests, c \in ClaimIds : PayoutRead(r, c)
    \/ \E r \in Requests : PayoutCall(r)
    \/ \E r \in Requests : PayoutUpdate(r)

\* A policy holder with six premiums paid claims; the admin approves and pays
\* out through the two routes, whose requests overlap.
SpecClaims == InitClaimant /\ [][NextClaims]_vars

\* ================================================================ claims
EventsOf(u) == {i \in 1..Len(premiumPaid) : premiumPaid[i].user = u}

RECURSIVE SumPaid(_)
SumPaid(S) ==
    IF S = {} THEN 0
    ELSE LET i == CHOOSE j \in S : TRUE
         IN premiumPaid[i].amount + SumPaid(S \ {i})

\* C2 (as claimed): over any sequence of payBatch calls every signed
\* authorization (user, nonce) is applied at most once: no two PremiumPaid
\* events carry the same user and nonce, nonces[user] is the number of
\* distinct authorizations applied for the user and policies[user].totalPaid
\* the sum of their amounts.
C2_AppliedAtMostOnce ==
    /\ \A i, j \in 1..Len(premiumPaid) :
          (i < j /\ premiumPaid[i].user = premiumPaid[j].user)
              => premiumPaid[i].nonce # premiumPaid[j].nonce
    /\ \A u \in Users :
          /\ nonces[u] = Cardinality({premiumPaid[i].nonce : i \in EventsOf(u)})
          /\ policies[u].totalPaid =
                SumPaid({i \in EventsOf(u) :
                           \A j \in EventsOf(u) :
                              premiumPaid[j].nonce = premiumPaid[i].nonce => i <= j})

\* C3 (as claimed): any two payments applied for one user are at least the
\* later authorization's period apart.
C3_PeriodBetweenPayments ==
    \A i, j \in 1..Len(premiumPaid) :
        (i < j /\ premiumPaid[i].user = premiumPaid[j].user)
            => premiumPaid[j].timestamp >=
                   premiumPaid[i].timestamp + premiumPaid[j].period

\* C4: payBatch is all-or-nothing: a call in which some entry fails a
\* first-pass check, or whose msg.value is not the summed amount, leaves
\* nonces, lastPaidAt, policies and totalPremiumsCollected as they were.
C4_AllOrNothing ==
    [][(lastOutcome'.n > 0
          /\ (lastOutcome'.nValid < lastOutcome'.n \/ ~lastOutcome'.valueOk))
        => UNCHANGED <<nonces, lastPaidAt, policies, totalPremiumsCollected>>]_vars

\* A batch with an entry that is valid on its own was rejected as a whole,
\* after an earlier batch had been applied.
C4_Witness ==
    /\ lastOutcome.n = 2
    /\ lastOutcome.nValid = 1
    /\ lastOutcome.reason \notin {"ok", "none"}
    /\ Len(premiumPaid) > 0

\* The entries of the script's most recent payBatch call.
CallEntries == 1..Len(lastCall.auths)
ThreeScripts == {Simple, BatchTs, Relayer}

\* nonces(user) as the run knows it for an entry of the call: the value the
\* script read, or, for a call made before any read, the value the contract
\* compares with during that call.
NonceSeen(w) == IF nonceRead[w] # -1 THEN nonceRead[w] ELSE lastCall.nonces[w]

\* C1 (as claimed): in simple-batch-test.js, part_005 and test-relayer.ts no
\* authorization whose nonce differs from nonces(user) is in the auths array
\* of any payBatch call, dry-run included.
C1_NoStaleNonceInAnyCall ==
    lastCall.by \in ThreeScripts =>
        \A k \in CallEntries :
            lastCall.auths[k].nonce = NonceSeen(lastCall.auths[k].user.addr)

\* C1 (amended): in those scripts every authorization in the auths array of a
\* payBatch call other than the staticCall dry-run of test-relayer.ts has the
\* nonce the run read from nonces(user).
C1_NoStaleNonceSubmitted ==
    (lastCall.by \in ThreeScripts /\ lastCall.kind # "staticCall") =>
        \A k \in CallEntries :
            lastCall.auths[k].nonce = nonceRead[lastCall.auths[k].user.addr]

\* A transaction was sent while another user's stored authorization was
\* found stale and left out.
C1_Witness ==
    /\ lastCall.by \in ThreeScripts
    /\ lastCall.kind = "send"
    /\ \E u \in Users :
          /\ nonceRead[u] # -1
          /\ nonceRead[u] # authorizations[u][1].typed_data_json.value.nonce
          /\ u \notin BatchUsers(lastCall.auths)

\* The wallet and the stored row an entry of a call belongs to.
RowOf(v) == authorizations[v.user.addr][1]

\* C5 (as claimed): every signature passed to payBatch recovers, under the
\* stored typed data, to the wallet_address of its user, in every script.
C5_OnlyRecoveringSignatures ==
    lastCall.by \in Scripts =>
        \A k \in CallEntries :
            LET row == RowOf(lastCall.auths[k])
            IN toLowerCase(verifyTypedData(row.typed_data_json.domain,
                                           row.typed_data_json.value,
                                           lastCall.signatures[k]))
                 = toLowerCase(usersTable[lastCall.auths[k].user.addr].wallet_address)

\* C6 (as claimed): no authorization with validUntil <= now is in a submitted
\* batch.
C6_NoExpiredSubmitted ==
    (lastCall.by \in Scripts /\ lastCall.kind = "send") =>
        \A k \in CallEntries : ~(lastCall.auths[k].validUntil <= lastCall.at)

\* C7 (as claimed): no authorization with now < lastPaidAt(user) + period is
\* in a submitted batch.
C7_NoEarlySubmitted ==
    (lastCall.by \in Scripts /\ lastCall.kind = "send") =>
        \A k \in CallEntries :
            ~(lastCall.at < lastCall.lastPaidAt[lastCall.auths[k].user.addr]
                              + lastCall.auths[k].period)

\* C8 (as claimed): no authorization whose amount differs from the monthlyFee
\* configured for its tier is in a submitted batch.
C8_NoFeeMismatchSubmitted ==
    (lastCall.by \in Scripts /\ lastCall.kind = "send") =>
        \A k \in CallEntries :
            lastCall.auths[k].amount = lastCall.fees[lastCall.auths[k].tier]

\* C9 (as claimed): when a run that had a transaction confirmed has finished,
\* the users it updated are exactly the users of the committed batch, and for
\* each of them total_paid is the previous value plus the authorized amount
\* and last_paid_at the confirmation time.
C9_MirrorFollowsBatch ==
    (pc = "done" /\ confirmedUsers # {}) =>
        /\ written = confirmedUsers
        /\ \A u \in confirmedUsers :
              /\ usersTable[u].total_paid =
                    usersAtStart[u].total_paid
                      + authorizations[u][1].typed_data_json.value.amount
              /\ usersTable[u].last_paid_at = timestamp

\* C10 (as claimed): a users row differs from its value at the start of the
\* run only if a transaction with that user's authorization was confirmed in
\* the run.
C10_WrittenOnlyAfterConfirmation ==
    pc # "idle" =>
        \A u \in Users :
            (u \in written \/ usersTable[u] # usersAtStart[u])
                => u \in confirmedUsers

\* C11 (as claimed): a script never sends a payBatch transaction while the
\* balance of its wallet is less than the summed amount of the batch, and
\* such a run writes no users row.
C11_NoSendWithoutFunds ==
    \/ lastCall.by \notin Scripts
    \/ lastCall.kind # "send"
    \/ lastCall.funds >= SumAmounts(lastCall.auths)

\* Whether the candidate at position i passes the checks its script makes
\* before it accepts a candidate.
Survives(i) ==
    LET user == Cand(i)
        auth == AuthOf(i)
        value == auth.typed_data_json.value
        w == user.wallet_address.addr
    IN IF script = Simple
       THEN SignatureMatches(user, auth) /\ NonceMatches(value, nonces[w])
       ELSE IF script = BatchTs
       THEN /\ MirrorReady(user, nowRead)
            /\ SignatureMatches(user, auth)
            /\ NonceMatches(value, nonces[w])
       ELSE IF script = Comprehensive
       THEN ChainReady(lastPaidAt[w], now) /\ SignatureMatches(user, auth)
       ELSE IF script = WithContract
       THEN i = 1 /\ ChainReady(lastPaidAt[w], now)
       ELSE /\ PreflightChecks(user, auth)
            /\ CallResult(AbiAuths(<<value>>), <<auth.signature>>, 0) = "ok"
            /\ NonceMatches(value, nonces[w])
            /\ ~TooEarly(lastPaidAt[w], value.period, now)

\* A run is under way or has ended by itself, nothing it sent was confirmed,
\* and none of the rows it fetched passes its checks.
NoSurvivor ==
    /\ pc \in Running \cup {"done"}
    /\ confirmedUsers = {}
    /\ \A i \in 1..Len(runUsers) : ~Survives(i)

\* C12 (as claimed): a run in which no candidate survives validation makes
\* no payBatch call of any kind and writes no users row.
C12_NoCallWithoutSurvivor ==
    NoSurvivor => (lastCall = NoCall /\ sent = <<>> /\ written = {})

\* C12 (amended): in a run in which no candidate survives validation, no
\* transaction is sent, no gas estimate is asked for and no users row is
\* written; the only payBatch calls are the staticCall dry-runs test-relayer.ts
\* makes as part of its validation.
C12_NoSubmissionWithoutSurvivor ==
    NoSurvivor =>
        /\ sent = <<>>
        /\ written = {}
        /\ usersTable = usersAtStart
        /\ \/ lastCall = NoCall
           \/ lastCall.by = Relayer /\ lastCall.kind = "staticCall"

\* A batch script has ended by itself after it fetched both users and
\* rejected every one of them.
C12_Witness ==
    /\ pc = "done"
    /\ script \in Scripts \ {Relayer}
    /\ Len(runUsers) = 2
    /\ NoSurvivor
    /\ lastCall = NoCall

\* C13 (as claimed): a run sends at most one payBatch transaction, and that
\* transaction carries every candidate the run accepted.
C13_OneTransactionPerRun ==
    /\ Len(sent) <= 1
    /\ (Len(sent) = 1 /\ pc \in {"update", "done"})
          => sent[1].users = BatchUsers(batchAuths)

\* C14 (as claimed): every payBatch call of a script carries a value equal
\* to the sum of the amounts of the authorizations in the call.
C14_ValueIsSumOfAmounts ==
    lastCall.by \in Scripts => lastCall.value = SumAmounts(lastCall.auths)

\* The assembly loop of a batch script has run to its end.
Assembled ==
    /\ script \in Scripts \ {Relayer}
    /\ \/ pc \in {"dryrun", "submit"}
       \/ pc = "presubmit" /\ script # Simple

\* The ways to read the batch as fetched rows taken in the order of the visit:
\* entry k is the value of row f[k], with the signature stored with it.
Alignments ==
    { f \in [1..Len(batchAuths) -> 1..Len(runUsers)] :
        /\ \A k \in 1..Len(batchAuths) :
              /\ batchAuths[k] = TypedData(f[k]).value
              /\ batchSignatures[k] = AuthOf(f[k]).signature
        /\ \A k, l \in 1..Len(batchAuths) : k < l => f[k] < f[l] }

\* C15: in the batch scripts auths and signatures have the same length,
\* signatures[k] is the signature stored with the authorization whose value is
\* auths[k], the entries are in the order of the visit, every accepted
\* candidate is there exactly once, and totalAmount is the sum of the
\* amounts.
C15_ParallelArrays ==
    (script \in Scripts \ {Relayer} /\ pc \in Running \cup {"done"}) =>
        /\ Len(batchAuths) = Len(batchSignatures)
        /\ Alignments # {}
        /\ totalAmount = SumAmounts(batchAuths)
        /\ (Assembled /\ confirmedUsers = {}) =>
              \E f \in Alignments :
                  {f[k] : k \in 1..Len(batchAuths)}
                      = {i \in 1..Len(runUsers) : Survives(i)}

\* A batch of two entries has been assembled after a candidate was visited.
C15_Witness ==
    /\ Assembled
    /\ Len(batchAuths) = 2
    /\ batchAuths[1].user.addr = "u1"
    /\ totalAmount = 2

\* C20 (as claimed): no authorization stored with a typed-data domain whose
\* chainId is not the chain id of the endpoint, or whose verifyingContract is
\* not the configured contract address, is in a payBatch call of a script.
C20_NoForeignDomainInCall ==
    lastCall.by \in Scripts =>
        \A k \in CallEntries :
            LET domain == RowOf(lastCall.auths[k]).typed_data_json.domain
            IN /\ domain.chainId = RuntimeChainId
               /\ domain.verifyingContract = ContractAddress

\* The most recently created of the active authorizations of a users row.
LatestActive(id) ==
    LET active == SelectSeq(authorizations[id], IsActive)
    IN active[Len(active)]

\* C16 (as claimed): the rows a run fetched hold every wallet address at most
\* once, and the candidate of each row is the most recently created of the
\* user's active authorizations.
C16_OneLatestCandidatePerWallet ==
    (script \in Scripts /\ pc \notin {"idle", "stopped"}) =>
        /\ \A i, j \in 1..Len(runUsers) :
              i # j => Cand(i).wallet_address # Cand(j).wallet_address
        /\ \A i \in 1..Len(runUsers) : AuthOf(i) = LatestActive(Cand(i).id)

\* C17 (as claimed): every user has at most one authorizations row with
\* is_active = true.
C17_OneActiveAuthorization ==
    \A u \in Users : Len(SelectSeq(authorizations[u], IsActive)) <= 1


\* C18 (as claimed): when two relayer runs work from the same authorizations,
\* no authorization is applied on-chain twice (no two PremiumPaid events with
\* the same user and nonce, so a transaction that repeats a user already paid
\* is rejected), and a run whose transaction was rejected writes no users row.
C18_NoDoublePaymentAcrossRuns ==
    /\ \A i, j \in 1..Len(premiumPaid) :
          (i # j /\ premiumPaid[i].user = premiumPaid[j].user)
              => premiumPaid[i].nonce # premiumPaid[j].nonce
    /\ (sent # <<>> /\ \A k \in 1..Len(sent) : ~sent[k].confirmed) => written = {}
    /\ (otherRun.pc = "done" /\ ~otherRun.confirmed) => otherRun.written = {}

\* The users row of u shows the payment the contract has recorded for u.
MirrorReflects(u) ==
    /\ usersTable[u].last_paid_at >= lastPaidAt[u]
    /\ usersTable[u].total_paid >= policies[u].totalPaid

\* C19 (as claimed): when a payBatch transaction with u's authorization was
\* confirmed and the run stopped before it updated u's users row, then, the
\* relayer being run again and again, u's last_paid_at and total_paid
\* eventually reflect the on-chain payment.
C19_MirrorEventuallyConsistent ==
    \A u \in Users :
        (pc = "stopped" /\ u \in confirmedUsers /\ u \notin written)
            ~> MirrorReflects(u)

\* C21 (as claimed): every authorization in a payBatch call of a script whose
\* stored signature the off-chain check accepts, and whose stored domain names
\* the contract's chain and address, recovers to its user under the
\* contract's own domain; one signed under another domain name is in no call.
C21_AcceptedRecoversOnChain ==
    lastCall.by \in Scripts =>
        \A k \in CallEntries :
            LET row == RowOf(lastCall.auths[k])
            IN (/\ SignatureMatches(usersTable[lastCall.auths[k].user.addr], row)
                /\ row.typed_data_json.domain.chainId = RuntimeChainId
                /\ row.typed_data_json.domain.verifyingContract = ContractAddress)
               => verifySignature(AbiAuth(lastCall.auths[k]), lastCall.signatures[k])
                     = lastCall.auths[k].user.addr

\* C22 (as claimed): for equal now, lastPaidAt, period and validUntil the
\* off-chain expiry and timing checks reject a candidate exactly when payBatch
\* reverts with "Authorization expired" or "Payment too early".
C22_PreChecksDecideAsContract ==
    evaluated.fn = "guards" =>
        (evaluated.rejected
            <=> evaluated.reason \in {"Authorization expired", "Payment too early"})

\* The candidate at position i passes the checks its script makes before the
\* batch is sent, and the node answers the reads for its wallet.
PassesWithoutFailure(i) ==
    LET w == Cand(i).wallet_address.addr
    IN /\ ~ReadFails(w)
       /\ SignatureMatches(Cand(i), AuthOf(i))
       /\ script = Simple => NonceMatches(TypedData(i).value, nonces[w])
       /\ script = Comprehensive => ChainReady(lastPaidAt[w], now)

\* C23 (as claimed): in simple-batch-test.js and in processPayments of
\* part_004 a failing read of the chain state for one candidate does not end
\* the process, and the batch that is sent holds every other candidate that
\* passes the checks.
C23_OnlyFailingCandidateDropped ==
    script \in {Simple, Comprehensive} =>
        /\ pc # "exited"
        /\ pc = "submit" =>
              \A i \in 1..Len(runUsers) :
                  PassesWithoutFailure(i)
                      => Cand(i).wallet_address.addr \in BatchUsers(batchAuths)

\* The candidate at position i is one the contract accepts on its own.
GoodCandidate(i) ==
    LET value == TypedData(i).value
        w == value.user.addr
    IN /\ toLowerCase(Cand(i).wallet_address) = toLowerCase(value.user)
       /\ value.nonce = nonces[w]
       /\ tiers[value.tier].active
       /\ value.amount = tiers[value.tier].monthlyFee
       /\ value.validUntil > now
       /\ lastPaidAt[w] + value.period <= now
       /\ verifySignature(AbiAuth(value), AuthOf(i).signature) = w

\* The wallet of the script can pay for every fetched authorization.
Funded ==
    walletBalance >= SumAmounts([k \in 1..Len(runUsers) |-> TypedData(k).value])

\* C24 (as claimed): a run that has fetched a candidate the contract accepts,
\* with its wallet funded and a relayer, reaches a confirmed payment for that
\* candidate's user, in the batch scripts and in test-relayer.ts.
C24_GoodCandidateIsPaid ==
    \A u \in Users :
        (/\ pc \in Running
         /\ sent = <<>>
         /\ onlyRelayer(Storage, Owner)
         /\ Funded
         /\ \E i \in 1..Len(runUsers) :
               GoodCandidate(i) /\ TypedData(i).value.user.addr = u)
            ~> (u \in confirmedUsers)

\* C26 (as claimed): checkClaimEligibility answers eligible exactly when the
\* requires of submitClaim pass for the user's policy, for every totalPaid,
\* every fee and every tier the fee argument is taken from.
C26_EligibleIffSubmitClaimPasses ==
    evaluated.fn = "eligibility" =>
        (evaluated.result.eligible <=> evaluated.reason = "ok")

\* C25 (as claimed): a request to the approve-claim route whose approveClaim
\* transaction is not confirmed leaves status, payout_amount and
\* claim_start_date of the claims row as they were.
C25_ApprovedOnlyAfterConfirmation ==
    [][ \A c \in ClaimIds :
          ((\E payoutAmount \in {800, 1600} : ApproveClaimRoute(c, payoutAmount))
           /\ claims'[c] = claims[c])
              => claimsTable'[c] = claimsTable[c] ]_vars

\* No request to the process-payout route is being handled.
Quiescent == \A r \in Requests : requests[r] = NoRequest

\* C29 (as claimed): whenever no process-payout request is under way, the
\* row's installments_paid is the contract's claim.installmentsPaid and at
\* most 4, and status is 'completed' exactly when installments_paid >= 4.
C29_InstallmentsFollowContract ==
    Quiescent =>
        \A c \in ClaimIds :
            claimsTable[c] # NoClaimRow =>
                /\ claimsTable[c].installments_paid = claims[c].installmentsPaid
                /\ claimsTable[c].installments_paid <= 4
                /\ (claimsTable[c].status = "completed"
                        <=> claimsTable[c].installments_paid >= 4)

\* C27 (as claimed): between relayer runs, the nonce that GET /api/user-nonce
\* returns to a registered account, and that the client embeds in the next
\* authorization, is the contract's nonce of the account's wallet; so after a
\* confirmed payment the next signature is for the nonce payBatch expects.
C27_UserNonceIsOnChainNonce ==
    pc = "idle" =>
        \A id \in Users :
            usersTable[id] # NoRow =>
                userNonce(id) = nonces[usersTable[id].wallet_address.addr]

\* Sum of policies[u].totalPaid over a set of users.
RECURSIVE SumTotalPaid(_)
SumTotalPaid(S) ==
    IF S = {} THEN 0
    ELSE LET u == CHOOSE x \in S : TRUE
         IN policies[u].totalPaid + SumTotalPaid(S \ {u})

\* Number of PremiumPaid events of user u, one per payment applied.
PaymentsApplied(u) ==
    Cardinality({k \in 1..Len(premiumPaid) : premiumPaid[k].user = u})

\* C28: in every reachable state of the contract, totalPremiumsCollected is
\* the sum of policies[u].totalPaid over the users, policies[u].lastPaidAt is
\* lastPaidAt[u], and nonces[u] is the number of payments applied for u.
C28_ContractAccounting ==
    /\ totalPremiumsCollected = SumTotalPaid(Users)
    /\ \A u \in Users :
          /\ policies[u].lastPaidAt = lastPaidAt[u]
          /\ nonces[u] = PaymentsApplied(u)

\* Both users have paid, one of them twice.
C28_Witness ==
    /\ nonces["u1"] = 2
    /\ nonces["u2"] >= 1
    /\ totalPremiumsCollected >= 3

\* C30 (as claimed): after any sequence of addRelayer and removeRelayer calls,
\* isRelayer(wallet) is true exactly when payBatch from that wallet passes
\* onlyRelayer, so a script that submits only when isRelayer(wallet) is true
\* submits exactly when the contract would admit it, the owner included.
C30_IsRelayerIffAdmitted ==
    evaluated.fn = "isRelayer" =>
        (evaluated.isRelayer <=> evaluated.reason # "Not relayer")


====
